---- MODULE Spec2Model ----
(***************************************************************************)
(* parse_markdown_tasks of github_issues_uploader (src/main.py): the       *)
(* line-oriented parser that turns a markdown document into task records,  *)
(* and main, which creates one GitHub issue per record.                    *)
(*                                                                         *)
(* Text is modelled character by character: a Python str is a sequence of  *)
(* one-character strings, so strip, split, join and the four regular       *)
(* expressions are computed as the code computes them.                     *)
(*                                                                         *)
(* A Python dict with the keys title/description/labels is a record whose  *)
(* fields are <<>> (key absent) or <<v>> (key present with value v).       *)
(***************************************************************************)
EXTENDS Naturals, Sequences, FiniteSets

VARIABLES
    pc,                 \* "open" | "loop" | "returned": position in parse_markdown_tasks
    tasks,              \* local `tasks`: list of finished task dicts
    current_task,       \* local `current_task`: dict
    description_lines,  \* local `description_lines`: list of str
    lines_read,         \* the raw lines `for line in f` has yielded so far
    error,              \* "none" | "FileNotFoundError" | "Exception"
    result,             \* the returned list (meaningful when pc = "returned")
    mpc,                \* position in main: "start" | "parsed" | "authenticated" |
                        \*   "connected" | "done"
    github_token,       \* main: whether --token or GITHUB_TOKEN gives a token
    tasks_to_create,    \* main: local `tasks_to_create`
    ops,                \* main: the operations performed so far, in order
    calls,              \* main: the create_github_issue calls made so far
    next_task,          \* main: index of the next task of `for task in tasks_to_create`
    created_count,      \* main: local `created_count`
    failed_count,       \* main: local `failed_count`
    exit                \* main: how it ended ("" while running)

parservars == <<pc, tasks, current_task, description_lines, lines_read, error, result>>
mainvars == <<mpc, github_token, tasks_to_create, ops, calls, next_task,
              created_count, failed_count, exit>>
vars == <<parservars, mainvars>>

-----------------------------------------------------------------------------
(* Bounds of the model *)

\* Longest document built freely from RawLines.
MaxLines == 4

\* Longest document main is run on.
MaxMainLines == 2

-----------------------------------------------------------------------------
(* Python str operations *)

Min(S) == CHOOSE x \in S : \A y \in S : x <= y
Max(S) == CHOOSE x \in S : \A y \in S : x >= y

\* str.isspace / regex \s on the characters the model uses.
IsSpace(c) == c \in {" ", "\t", "\n", "\r"}

NonSpaceIdx(s) == {i \in 1..Len(s) : ~IsSpace(s[i])}

\* str.strip(): drop leading and trailing whitespace.
Strip(s) ==
    LET idx == NonSpaceIdx(s)
    IN  IF idx = {} THEN <<>> ELSE SubSeq(s, Min(idx), Max(idx))

\* "\n".join(lines)
RECURSIVE JoinNL(_)
JoinNL(lines) ==
    IF lines = <<>> THEN <<>>
    ELSE IF Len(lines) = 1 THEN lines[1]
    ELSE lines[1] \o <<"\n">> \o JoinNL(Tail(lines))

\* s.split(','): the pieces between commas, empty pieces included.
RECURSIVE SplitComma(_)
SplitComma(s) ==
    LET commas == {i \in 1..Len(s) : s[i] = ","}
    IN  IF commas = {} THEN <<s>>
        ELSE <<SubSeq(s, 1, Min(commas) - 1)>>
                \o SplitComma(SubSeq(s, Min(commas) + 1, Len(s)))

\* [x for x in xs if x]: keep the non-empty strings, in order.
RECURSIVE NonEmptyOnly(_)
NonEmptyOnly(xs) ==
    IF xs = <<>> THEN <<>>
    ELSE (IF xs[1] # <<>> THEN <<xs[1]>> ELSE <<>>) \o NonEmptyOnly(Tail(xs))

StripEach(xs) == [i \in 1..Len(xs) |-> Strip(xs[i])]

\* [label.strip() for label in labels_str.split(',') if label.strip()]
SplitLabelsKeepEmpty(labels_str) == StripEach(SplitComma(labels_str))
SplitLabels(labels_str) == NonEmptyOnly(StripEach(SplitComma(labels_str)))

\* "\n".join(description_lines).strip()
FlushNoStrip(lines) == JoinNL(lines)
Flush(lines) == Strip(JoinNL(lines))

-----------------------------------------------------------------------------
(* The four regular expressions, matched with re.match on the stripped line *)

UpperCase == <<"A","B","C","D","E","F","G","H","I","J","K","L","M",
               "N","O","P","Q","R","S","T","U","V","W","X","Y","Z">>
LowerCase == <<"a","b","c","d","e","f","g","h","i","j","k","l","m",
               "n","o","p","q","r","s","t","u","v","w","x","y","z">>

\* re.IGNORECASE compares letters case-folded.
FoldMap == [c \in {UpperCase[i] : i \in 1..26} |->
                LowerCase[CHOOSE i \in 1..26 : UpperCase[i] = c]]
Fold(c) == IF c \in DOMAIN FoldMap THEN FoldMap[c] ELSE c

TitleKeyword == <<"*","*","I","s","s","u","e"," ","T","i","t","l","e",":","*","*">>
DescriptionKeyword == <<"*","*","D","e","s","c","r","i","p","t","i","o","n",":","*","*">>
LabelsKeyword == <<"*","*","S","u","g","g","e","s","t","e","d"," ",
                   "L","a","b","e","l","s",":","*","*">>

\* The literal part of a pattern matches at the start of the line.
StartsWith(kw, line) ==
    /\ Len(line) >= Len(kw)
    /\ \A i \in 1..Len(kw) : Fold(line[i]) = Fold(kw[i])

AfterKeyword(kw, line) == SubSeq(line, Len(kw) + 1, Len(line))

\* `\s*(.+)` on the text after the keyword: \s* is greedy and gives characters
\* back until `.` (any character but newline) can match; (.+) then runs to the
\* next newline or the end.  <<>> is "no match", <<g>> is a match with group(1) = g.
LeadingSpaces(rest) ==
    IF NonSpaceIdx(rest) = {} THEN Len(rest) ELSE Min(NonSpaceIdx(rest)) - 1

RestGroupMayBeEmpty(rest) ==
    <<SubSeq(rest, LeadingSpaces(rest) + 1, Len(rest))>>
RestGroup(rest) ==
    LET starts == {j \in 0..LeadingSpaces(rest) :
                      j + 1 <= Len(rest) /\ rest[j + 1] # "\n"}
    IN  IF starts = {} THEN <<>>
        ELSE LET j == Max(starts)
                 nl == {k \in (j + 1)..Len(rest) : rest[k] = "\n"}
                 e == IF nl = {} THEN Len(rest) ELSE Min(nl) - 1
             IN  <<SubSeq(rest, j + 1, e)>>

\* title_match: r"\*\*Issue Title:\*\*\s*(.+)", re.IGNORECASE
TitleMatch(line) ==
    IF StartsWith(TitleKeyword, line)
    THEN RestGroup(AfterKeyword(TitleKeyword, line))
    ELSE <<>>

\* description_marker_match: r"\*\*Description:\*\*", re.IGNORECASE
DescriptionMarkerMatch(line) == StartsWith(DescriptionKeyword, line)

\* labels_match: r"\*\*Suggested Labels:\*\*\s*(.+)", re.IGNORECASE
LabelsMatch(line) ==
    IF StartsWith(LabelsKeyword, line)
    THEN RestGroup(AfterKeyword(LabelsKeyword, line))
    ELSE <<>>

\* separator_match: r"^-{3,}\s*$"
MinHyphens == 3
SeparatorMatch(line) ==
    LET notHyphen == {i \in 1..Len(line) : line[i] # "-"}
        h == IF notHyphen = {} THEN Len(line) ELSE Min(notHyphen) - 1
    IN  /\ h >= MinHyphens
        /\ \A i \in (h + 1)..Len(line) : IsSpace(line[i])

\* The four matches of one loop iteration on the stripped line.
Classify(line) ==
    [title |-> TitleMatch(line),
     description |-> DescriptionMarkerMatch(line),
     labels |-> LabelsMatch(line),
     separator |-> SeparatorMatch(line)]

-----------------------------------------------------------------------------
(* Python dict with the keys the parser uses *)

\* {}
EmptyDict == [title |-> <<>>, description |-> <<>>, labels |-> <<>>]

\* d[k] = v
SetKey(d, k, v) == [d EXCEPT ![k] = <<v>>]

\* d.get("title") is truthy: the key is present and its string is not empty.
HasTitle(d) == d.title # <<>> /\ d.title[1] # <<>>

\* `if current_task:` is truthy for a dict with at least one key.
Truthy(d) == d # EmptyDict

-----------------------------------------------------------------------------
(* The loop body of parse_markdown_tasks, branch by branch, as functions of   *)
(* the three locals s = [tasks, current_task, description_lines].             *)

Locals == [tasks |-> tasks, current_task |-> current_task,
           description_lines |-> description_lines]

\* if title_match: ... (g is title_match.group(1))
TitleBranchKeepBuffer(s, g) ==
    LET closed ==
            IF HasTitle(s.current_task)
            THEN LET ct == IF s.description_lines # <<>>
                           THEN SetKey(s.current_task, "description",
                                       Flush(s.description_lines))
                           ELSE s.current_task
                 IN  [tasks |-> IF Truthy(ct) THEN Append(s.tasks, ct) ELSE s.tasks,
                      current_task |-> EmptyDict,
                      description_lines |-> s.description_lines]
            ELSE s
    IN  [closed EXCEPT !.current_task =
            SetKey(SetKey(SetKey(@, "title", Strip(g)), "description", <<>>),
                   "labels", <<>>)]
TitleBranchSameDict(s, g) ==
    LET fresh == SetKey(SetKey(SetKey(s.current_task, "title", Strip(g)),
                               "description", <<>>), "labels", <<>>)
    IN  IF HasTitle(s.current_task)
        THEN [tasks |-> Append(s.tasks, fresh),
              current_task |-> fresh,
              description_lines |-> <<>>]
        ELSE [s EXCEPT !.current_task = fresh]
TitleBranchKeepLabels(s, g) ==
    LET closed ==
            IF HasTitle(s.current_task)
            THEN LET ct == IF s.description_lines # <<>>
                           THEN SetKey(s.current_task, "description",
                                       Flush(s.description_lines))
                           ELSE s.current_task
                 IN  [tasks |-> IF Truthy(ct) THEN Append(s.tasks, ct) ELSE s.tasks,
                      current_task |-> EmptyDict,
                      description_lines |-> <<>>]
            ELSE s
    IN  [closed EXCEPT !.current_task =
            SetKey(SetKey(SetKey(@, "title", Strip(g)), "description", <<>>),
                   "labels", IF @.labels = <<>> THEN <<>> ELSE @.labels[1])]
TitleBranchAppendIfBuffer(s, g) ==
    LET closed ==
            IF HasTitle(s.current_task)
            THEN IF s.description_lines # <<>>
                 THEN [tasks |-> Append(s.tasks,
                                    SetKey(s.current_task, "description",
                                           Flush(s.description_lines))),
                       current_task |-> EmptyDict,
                       description_lines |-> <<>>]
                 ELSE [s EXCEPT !.current_task = EmptyDict]
            ELSE s
    IN  [closed EXCEPT !.current_task =
            SetKey(SetKey(SetKey(@, "title", Strip(g)), "description", <<>>),
                   "labels", <<>>)]
TitleBranch(s, g) ==
    LET closed ==
            IF HasTitle(s.current_task)
            THEN LET ct == IF s.description_lines # <<>>
                           THEN SetKey(s.current_task, "description",
                                       Flush(s.description_lines))
                           ELSE s.current_task
                 IN  [tasks |-> IF Truthy(ct) THEN Append(s.tasks, ct) ELSE s.tasks,
                      current_task |-> EmptyDict,
                      description_lines |-> <<>>]
            ELSE s
    IN  [closed EXCEPT !.current_task =
            SetKey(SetKey(SetKey(@, "title", Strip(g)), "description", <<>>),
                   "labels", <<>>)]

\* elif description_marker_match: ...
DescriptionBranchNoFlush(s) == [s EXCEPT !.description_lines = <<>>]
DescriptionBranchKeepBuffer(s) ==
    [s EXCEPT !.current_task =
                  IF s.description_lines # <<>>
                  THEN SetKey(@, "description", Flush(s.description_lines))
                  ELSE @]
DescriptionBranch(s) ==
    [s EXCEPT !.current_task =
                  IF s.description_lines # <<>>
                  THEN SetKey(@, "description", Flush(s.description_lines))
                  ELSE @,
              !.description_lines = <<>>]

\* elif labels_match: ... (g is labels_match.group(1))
LabelsBranchExtend(s, g) ==
    [s EXCEPT !.current_task =
                  LET ct == IF s.description_lines # <<>>
                            THEN SetKey(@, "description", Flush(s.description_lines))
                            ELSE @
                  IN  SetKey(ct, "labels",
                             (IF ct.labels = <<>> THEN <<>> ELSE ct.labels[1])
                                 \o SplitLabels(Strip(g))),
              !.description_lines = <<>>]
LabelsBranchNoFlush(s, g) ==
    [s EXCEPT !.current_task = SetKey(@, "labels", SplitLabels(Strip(g))),
              !.description_lines = <<>>]
LabelsBranch(s, g) ==
    [s EXCEPT !.current_task =
                  LET ct == IF s.description_lines # <<>>
                            THEN SetKey(@, "description", Flush(s.description_lines))
                            ELSE @
                  IN  SetKey(ct, "labels", SplitLabels(Strip(g))),
              !.description_lines = <<>>]

\* elif separator_match: ...
SeparatorBranchAnyDict(s) ==
    IF Truthy(s.current_task)
    THEN LET ct == IF s.description_lines # <<>>
                   THEN SetKey(s.current_task, "description",
                               Flush(s.description_lines))
                   ELSE s.current_task
         IN  [tasks |-> Append(s.tasks, ct),
              current_task |-> EmptyDict,
              description_lines |-> <<>>]
    ELSE s
SeparatorBranch(s) ==
    IF HasTitle(s.current_task)
    THEN LET ct == IF s.description_lines # <<>>
                   THEN SetKey(s.current_task, "description",
                               Flush(s.description_lines))
                   ELSE s.current_task
         IN  [tasks |-> IF Truthy(ct) THEN Append(s.tasks, ct) ELSE s.tasks,
              current_task |-> EmptyDict,
              description_lines |-> <<>>]
    ELSE s

\* elif current_task.get("title") and not labels_match and not title_match:
\* (m is the record of the four matches)
PlainGuardAlways(s, m) == TRUE
PlainGuard(s, m) ==
    /\ HasTitle(s.current_task)
    /\ m.labels = <<>>
    /\ m.title = <<>>

\* description_lines.append(line)
PlainBranch(s, line) ==
    [s EXCEPT !.description_lines = Append(@, line)]

\* After the loop: "Add the last task if any".
EndOfInputNoFlush(s) ==
    IF HasTitle(s.current_task)
    THEN [s EXCEPT !.tasks = Append(@, s.current_task)]
    ELSE s
EndOfInput(s) ==
    IF HasTitle(s.current_task)
    THEN LET ct == IF s.description_lines # <<>>
                   THEN SetKey(s.current_task, "description",
                               Flush(s.description_lines))
                   ELSE s.current_task
         IN  [s EXCEPT !.current_task = ct,
                       !.tasks = IF Truthy(ct) THEN Append(@, ct) ELSE @]
    ELSE s

\* Which branch of the if/elif chain is taken, given the four matches.
Branch(s, m) ==
    IF m.title # <<>> THEN "title"
    ELSE IF m.description THEN "description"
    ELSE IF m.labels # <<>> THEN "labels"
    ELSE IF m.separator THEN "separator"
    ELSE IF PlainGuard(s, m) THEN "plain"
    ELSE "none"

\* line = line.strip() and the four re.match calls on a raw line.
Scan(raw) == [line |-> Strip(raw), m |-> Classify(Strip(raw))]

-----------------------------------------------------------------------------
(* The documents the model reads *)

LowerOf(s) == [i \in 1..Len(s) |-> Fold(s[i])]

FixBug == <<"F","i","x"," ","b","u","g">>
AddFeature == <<"A","d","d"," ","f","e","a","t","u","r","e">>
Line1 == <<"L","i","n","e","1">>
Line2 == <<"L","i","n","e","2">>
BugUrgent == <<"b","u","g",","," ","u","r","g","e","n","t">>
ABC == <<"a",","," ","b"," ",",",","," ","c">>
DupLabels == <<"u","i"," ",","," ",",","u","i",",">>
Hyphens == <<"-","-","-">>

\* Raw lines as the file iterator yields them, without the line terminator
\* (a terminator is whitespace, which line.strip() removes first).
RawTitleFix == TitleKeyword \o <<" ">> \o FixBug
RawTitleAdd == <<" ">> \o LowerOf(TitleKeyword) \o AddFeature \o <<" ", " ">>
RawTitleBare == TitleKeyword \o <<" ">>
RawDescription == DescriptionKeyword
RawLabelsBug == LabelsKeyword \o <<" ">> \o BugUrgent
RawLabelsDup == LowerOf(LabelsKeyword) \o DupLabels
RawLabelsBare == <<" ">> \o LabelsKeyword
RawSeparator == Hyphens
RawLine1 == Line1
RawIndented == <<" ", " ">> \o Line2 \o <<" ">> \o Line1 \o <<"\t">>
RawBlank == <<>>

RawLines == {RawTitleFix, RawTitleAdd, RawTitleBare, RawDescription, RawLabelsBug,
             RawLabelsDup, RawLabelsBare, RawSeparator, RawLine1, RawIndented,
             RawBlank}

\* The end-to-end example of the specification, and the label example.
ExampleDoc ==
    <<RawTitleFix, RawDescription, Line1, Line2, RawLabelsBug, RawSeparator,
      TitleKeyword \o <<" ">> \o AddFeature, RawSeparator>>
LabelExampleDoc == <<RawTitleFix, LabelsKeyword \o <<" ">> \o ABC>>

\* A block in the documented format whose description has blank and indented lines.
IndentedDoc ==
    <<RawTitleAdd, RawDescription, RawBlank, RawIndented, RawBlank, RawLine1,
      RawBlank, RawLabelsDup, RawSeparator>>
LongDocs == {ExampleDoc, LabelExampleDoc, IndentedDoc}

IsPrefix(p, d) == Len(p) <= Len(d) /\ SubSeq(d, 1, Len(p)) = p

\* The file's next line: any document of at most MaxLines lines over RawLines,
\* and the longer example documents.
CanRead(raw) ==
    \/ Len(lines_read) < MaxLines /\ raw \in RawLines
    \/ \E d \in LongDocs : IsPrefix(Append(lines_read, raw), d)
NextLines == RawLines \cup UNION {{d[i] : i \in 1..Len(d)} : d \in LongDocs}

\* Scan of every line the model reads, computed once.
ScanTable == [raw \in NextLines |-> Scan(raw)]
ScanOf(raw) == IF raw \in DOMAIN ScanTable THEN ScanTable[raw] ELSE Scan(raw)

\* One iteration of `for line in f` on the raw line.
ProcessLine(s, raw) ==
    LET sc == ScanOf(raw)
        b == Branch(s, sc.m)
    IN  CASE b = "title" -> TitleBranch(s, sc.m.title[1])
          [] b = "description" -> DescriptionBranch(s)
          [] b = "labels" -> LabelsBranch(s, sc.m.labels[1])
          [] b = "separator" -> SeparatorBranch(s)
          [] b = "plain" -> PlainBranch(s, sc.line)
          [] OTHER -> s

\* The locals at function entry.
InitLocals == [tasks |-> <<>>, current_task |-> EmptyDict, description_lines |-> <<>>]

\* The locals after the loop has consumed the lines of doc.
RECURSIVE AfterLines(_)
AfterLines(doc) ==
    IF doc = <<>> THEN InitLocals
    ELSE ProcessLine(AfterLines(SubSeq(doc, 1, Len(doc) - 1)), doc[Len(doc)])

\* What parse_markdown_tasks returns for a readable file with the lines doc.
ParseDoc(doc) == EndOfInput(AfterLines(doc)).tasks

-----------------------------------------------------------------------------
(* parse_markdown_tasks as a state machine *)

ParserInit ==
    /\ pc = "open"
    /\ tasks = <<>>
    /\ current_task = EmptyDict
    /\ description_lines = <<>>
    /\ lines_read = <<>>
    /\ error = "none"
    /\ result = <<>>

\* main before its first statement.
MainIdle ==
    /\ mpc = "start"
    /\ tasks_to_create = <<>>
    /\ ops = <<>>
    /\ calls = <<>>
    /\ next_task = 1
    /\ created_count = 0
    /\ failed_count = 0
    /\ exit = ""

\* parse_markdown_tasks called on its own, with a token at hand.
Init == ParserInit /\ MainIdle /\ github_token = TRUE

SetLocals(s) ==
    /\ tasks' = s.tasks
    /\ current_task' = s.current_task
    /\ description_lines' = s.description_lines

\* with open(markdown_file_path, 'r', encoding='utf-8') as f:
OpenFile ==
    /\ pc = "open"
    /\ pc' = "loop"
    /\ UNCHANGED <<tasks, current_task, description_lines, lines_read, error, result>>
    /\ UNCHANGED mainvars

\* open raises: except FileNotFoundError / except Exception: return []
OpenFails ==
    /\ pc = "open"
    /\ \E e \in {"FileNotFoundError", "Exception"} : error' = e
    /\ result' = <<>>
    /\ pc' = "returned"
    /\ UNCHANGED <<tasks, current_task, description_lines, lines_read>>
    /\ UNCHANGED mainvars

\* One iteration of the loop on the next raw line, by the branch it takes.
Takes(raw, branch) ==
    /\ pc = "loop"
    /\ CanRead(raw)
    /\ Branch(Locals, ScanOf(raw).m) = branch

Consume(raw) ==
    /\ SetLocals(ProcessLine(Locals, raw))
    /\ lines_read' = Append(lines_read, raw)
    /\ UNCHANGED <<pc, error, result>>
    /\ UNCHANGED mainvars

TitleLine ==
    \E raw \in NextLines : Takes(raw, "title") /\ Consume(raw)

DescriptionLine ==
    \E raw \in NextLines : Takes(raw, "description") /\ Consume(raw)

LabelsLine ==
    \E raw \in NextLines : Takes(raw, "labels") /\ Consume(raw)

SeparatorLine ==
    \E raw \in NextLines : Takes(raw, "separator") /\ Consume(raw)

PlainLine ==
    \E raw \in NextLines : Takes(raw, "plain") /\ Consume(raw)

\* No branch of the chain is taken: the line is dropped.
IgnoredLine ==
    \E raw \in NextLines : Takes(raw, "none") /\ Consume(raw)

\* Reading the next line raises (an I/O or decoding error): except Exception: return []
ReadFailsKeepsTasks ==
    /\ pc = "loop"
    /\ error' = "Exception"
    /\ result' = tasks
    /\ pc' = "returned"
    /\ UNCHANGED <<tasks, current_task, description_lines, lines_read>>
    /\ UNCHANGED mainvars
ReadFails ==
    /\ pc = "loop"
    /\ error' = "Exception"
    /\ result' = <<>>
    /\ pc' = "returned"
    /\ UNCHANGED <<tasks, current_task, description_lines, lines_read>>
    /\ UNCHANGED mainvars

\* The iterator is exhausted: add the last task if any, return tasks.
EndOfFile ==
    /\ pc = "loop"
    /\ SetLocals(EndOfInput(Locals))
    /\ result' = EndOfInput(Locals).tasks
    /\ pc' = "returned"
    /\ UNCHANGED <<lines_read, error>>
    /\ UNCHANGED mainvars

Next ==
    \/ OpenFile
    \/ OpenFails
    \/ TitleLine
    \/ DescriptionLine
    \/ LabelsLine
    \/ SeparatorLine
    \/ PlainLine
    \/ IgnoredLine
    \/ ReadFails
    \/ EndOfFile

Spec == Init /\ [][Next]_vars

\* The function returned normally, having read the whole document lines_read.
Returned == pc = "returned" /\ error = "none"

TypeOK ==
    /\ pc \in {"open", "loop", "returned"}
    /\ error \in {"none", "FileNotFoundError", "Exception"}
    /\ Locals = AfterLines(lines_read) \/ pc = "returned"
    /\ Returned => result = ParseDoc(lines_read)

-----------------------------------------------------------------------------
(* Reading a document as the specification describes it: line kinds and blocks *)

\* The kind of a raw line: the first pattern that matches, else Plain.
KindOf(raw) ==
    LET m == ScanOf(raw).m
    IN  IF m.title # <<>> THEN "title"
        ELSE IF m.description THEN "description"
        ELSE IF m.labels # <<>> THEN "labels"
        ELSE IF m.separator THEN "separator"
        ELSE "plain"

\* The trimmed text a TitleMarker or LabelsMarker line carries.
TitleText(raw) == Strip(ScanOf(raw).m.title[1])
LabelsText(raw) == Strip(ScanOf(raw).m.labels[1])

KindIdx(doc, kind) == {i \in 1..Len(doc) : KindOf(doc[i]) = kind}
TitleIdx(doc) == KindIdx(doc, "title")

\* Index of the k-th TitleMarker line of doc.
KthTitle(doc, k) ==
    CHOOSE i \in TitleIdx(doc) : Cardinality({j \in TitleIdx(doc) : j <= i}) = k

\* Last line of the k-th block: the line before the next TitleMarker, or the last line.
BlockEnd(doc, k) ==
    IF k < Cardinality(TitleIdx(doc)) THEN KthTitle(doc, k + 1) - 1 ELSE Len(doc)

\* The k-th block: from its TitleMarker up to the next TitleMarker or the end.
Block(doc, k) == SubSeq(doc, KthTitle(doc, k), BlockEnd(doc, k))

\* Last line of the k-th block that belongs to its task: the block ends at its
\* first Separator (exclusive) if it has one.
TaskEnd(doc, k) ==
    LET seps == {i \in KthTitle(doc, k)..BlockEnd(doc, k) : KindOf(doc[i]) = "separator"}
    IN  IF seps = {} THEN BlockEnd(doc, k) ELSE Min(seps) - 1

\* A task record with all three keys.
Record(t, d, l) == [title |-> <<t>>, description |-> <<d>>, labels |-> <<l>>]

LastRead == lines_read[Len(lines_read)]
BeforeLast == AfterLines(SubSeq(lines_read, 1, Len(lines_read) - 1))

-----------------------------------------------------------------------------
(* C1 *)

\* C1: the parser returns exactly one record per TitleMarker line of the document,
\* in document order, and the k-th record's title is the trimmed text of the k-th
\* TitleMarker, whether the block is ended by a Separator, by the next TitleMarker
\* or by the end of input.
C1_OneRecordPerTitle ==
    Returned =>
        /\ Len(result) = Cardinality(TitleIdx(lines_read))
        /\ \A k \in 1..Len(result) :
              result[k].title = <<TitleText(lines_read[KthTitle(lines_read, k)])>>

\* Three blocks: one ended by a Separator, one by the next TitleMarker, one by the
\* end of input.
C1_Witness ==
    /\ Returned
    /\ Len(result) = 3
    /\ KindIdx(lines_read, "separator") # {}
    /\ \E i \in 1..(Len(lines_read) - 1) :
          KindOf(lines_read[i]) = "title" /\ KindOf(lines_read[i + 1]) = "title"
    /\ KindOf(LastRead) = "title"
    /\ result[1].title = <<FixBug>>
    /\ result[3].title = <<AddFeature>>

-----------------------------------------------------------------------------
(* C2 *)

\* C2: a TitleMarker closes the task in progress and starts a fresh one: right after
\* a TitleMarker line the task in progress is {title, "", []} with an empty buffer,
\* and the returned records are those of the blocks parsed one by one, each block
\* (from its TitleMarker to the next) giving exactly its own record, so nothing of
\* an earlier block reaches a later record and two blocks are never merged.
C2_TitleClosesAndStartsFresh ==
    /\ (pc = "loop" /\ lines_read # <<>> /\ KindOf(LastRead) = "title") =>
          /\ current_task = Record(TitleText(LastRead), <<>>, <<>>)
          /\ description_lines = <<>>
          /\ Len(tasks) = Cardinality(TitleIdx(lines_read)) - 1
    /\ Returned =>
          /\ Len(result) = Cardinality(TitleIdx(lines_read))
          /\ \A k \in 1..Cardinality(TitleIdx(lines_read)) :
                ParseDoc(Block(lines_read, k)) = <<result[k]>>

\* Two blocks with no Separator between them; the first has a description and
\* labels, the second has neither.
C2_Witness ==
    /\ Returned
    /\ Len(result) = 2
    /\ KindIdx(lines_read, "separator") = {}
    /\ result[1].description # << <<>> >>
    /\ result[1].labels # << <<>> >>
    /\ result[2] = Record(AddFeature, <<>>, <<>>)

-----------------------------------------------------------------------------
(* C3 *)

\* C3: in every reachable state every record of the output (and of the returned
\* list) has the key title with a non-empty string.
C3_RecordsHaveTitle ==
    /\ \A i \in 1..Len(tasks) : HasTitle(tasks[i])
    /\ \A i \in 1..Len(result) : HasTitle(result[i])

\* A Separator arrived while current_task held a key but no title (a LabelsMarker
\* before any TitleMarker), and a later task was appended.
C3_Witness ==
    /\ Returned
    /\ Len(result) = 1
    /\ \E i \in 1..Len(lines_read) :
          /\ KindOf(lines_read[i]) = "separator"
          /\ LET s == AfterLines(SubSeq(lines_read, 1, i - 1))
             IN  Truthy(s.current_task) /\ ~HasTitle(s.current_task)

-----------------------------------------------------------------------------
(* C4 *)

\* The lines of the k-th block after its TitleMarker and before its Separator.
TaskLines(doc, k) == SubSeq(doc, KthTitle(doc, k) + 1, TaskEnd(doc, k))
HasSeparator(doc, k) == TaskEnd(doc, k) < BlockEnd(doc, k)

\* TitleMarker, DescriptionMarker, plain lines, LabelsMarker, Separator.
Canonical(doc, k) ==
    LET b == TaskLines(doc, k)
    IN  /\ HasSeparator(doc, k)
        /\ Len(b) >= 2
        /\ KindOf(b[1]) = "description"
        /\ KindOf(b[Len(b)]) = "labels"
        /\ \A i \in 2..(Len(b) - 1) : KindOf(b[i]) = "plain"

\* TitleMarker, Separator.
TitleOnly(doc, k) == HasSeparator(doc, k) /\ TaskLines(doc, k) = <<>>

ExampleRecords ==
    <<Record(FixBug,
             <<"L","i","n","e","1","\n","L","i","n","e","2">>,
             << <<"b","u","g">>, <<"u","r","g","e","n","t">> >>),
      Record(AddFeature, <<>>, <<>>)>>

\* C4: the record of a block in canonical form is {title: t, description: the
\* trimmed plain lines joined by newline and trimmed, labels: the comma-split of
\* the LabelsMarker text}; the record of a block that is a TitleMarker and a
\* Separator is {t, "", []}; the specification's two-block example returns the two
\* records it lists.
C4_CanonicalBlockRecord ==
    Returned =>
        /\ \A k \in 1..Cardinality(TitleIdx(lines_read)) :
              LET t == TitleText(lines_read[KthTitle(lines_read, k)])
                  b == TaskLines(lines_read, k)
              IN  /\ Canonical(lines_read, k) =>
                        result[k] =
                            Record(t,
                                   Strip(JoinNL([i \in 1..(Len(b) - 2) |-> Strip(b[i + 1])])),
                                   SplitLabels(LabelsText(b[Len(b)])))
                  /\ TitleOnly(lines_read, k) => result[k] = Record(t, <<>>, <<>>)
        /\ lines_read = ExampleDoc => result = ExampleRecords

\* The specification's example has been parsed to the end.
C4_Witness ==
    /\ Returned
    /\ lines_read = ExampleDoc
    /\ Canonical(lines_read, 1)
    /\ TitleOnly(lines_read, 2)
    /\ result = ExampleRecords

-----------------------------------------------------------------------------
(* C5 *)

\* doc without the lines that arrive while no task is in progress: before the
\* first TitleMarker and between a Separator and the next TitleMarker.
RECURSIVE DropIdle(_, _)
DropIdle(doc, collecting) ==
    IF doc = <<>> THEN <<>>
    ELSE LET kind == KindOf(Head(doc))
         IN  IF kind = "title" THEN <<Head(doc)>> \o DropIdle(Tail(doc), TRUE)
             ELSE IF ~collecting THEN DropIdle(Tail(doc), FALSE)
             ELSE IF kind = "separator" THEN <<Head(doc)>> \o DropIdle(Tail(doc), FALSE)
             ELSE <<Head(doc)>> \o DropIdle(Tail(doc), TRUE)

\* C5: lines that arrive while no task is in progress contribute nothing: the
\* document returns what it returns with those lines removed, and a document with
\* no TitleMarker returns no record.
C5_IdleLinesContributeNothing ==
    Returned =>
        /\ result = ParseDoc(DropIdle(lines_read, FALSE))
        /\ TitleIdx(lines_read) = {} => result = <<>>

\* A document with a record in which lines of two different kinds arrived while
\* no task was in progress.
C5_Witness ==
    /\ Returned
    /\ result # <<>>
    /\ Len(lines_read) >= Len(DropIdle(lines_read, FALSE)) + 2
    /\ KindOf(lines_read[1]) = "labels"
    /\ KindOf(lines_read[2]) = "plain"

-----------------------------------------------------------------------------
(* C6 *)

\* C6: the end of input closes the task in progress as a Separator does: a document
\* returns what it returns with one Separator line appended, a second Separator
\* appended adds nothing, and a Separator right after a Separator leaves the output
\* unchanged.
C6_FinalSeparatorOptional ==
    /\ Returned =>
          /\ result = ParseDoc(Append(lines_read, RawSeparator))
          /\ result = ParseDoc(lines_read \o <<RawSeparator, RawSeparator>>)
    /\ pc = "loop" =>
          SeparatorBranch(SeparatorBranch(Locals)) = SeparatorBranch(Locals)

\* The document ended with a task in progress and lines in the buffer.
C6_Witness ==
    /\ Returned
    /\ lines_read # <<>>
    /\ KindOf(LastRead) = "plain"
    /\ HasTitle(current_task)
    /\ description_lines # <<>>
    /\ result[Len(result)].description # << <<>> >>

-----------------------------------------------------------------------------
(* C7 *)

\* The k-th block is a TitleMarker, an optional DescriptionMarker, and then plain
\* lines only: its description is a single run of lines.
SingleRun(doc, k) ==
    LET b == TaskLines(doc, k)
    IN  \A i \in 1..Len(b) :
            \/ KindOf(b[i]) = "plain"
            \/ i = 1 /\ KindOf(b[i]) = "description"

\* The description lines of such a block, as they stand in the document.
RunLines(doc, k) ==
    LET b == TaskLines(doc, k)
    IN  IF b # <<>> /\ KindOf(b[1]) = "description" THEN Tail(b) ELSE b

DescriptionOf(r) == r.description[1]

\* C7 as claimed: the description is the block's lines joined by newline, with only
\* the leading and trailing whitespace of the whole stripped, so that whitespace
\* at the start or end of an interior line is kept.
C7_OnlyBlockIsStripped ==
    Returned =>
        \A k \in 1..Cardinality(TitleIdx(lines_read)) :
            SingleRun(lines_read, k) =>
                DescriptionOf(result[k]) = Strip(JoinNL(RunLines(lines_read, k)))

IndentedDescription ==
    <<"L","i","n","e","2"," ","L","i","n","e","1","\n","\n","L","i","n","e","1">>

\* C7 as amended: every line is first trimmed of its own leading and trailing
\* whitespace; the trimmed lines are joined by newline, blank lines staying as
\* empty lines at their positions, and the leading and trailing whitespace of the
\* whole is stripped.  Whitespace in the interior of a line is kept.
C7_LinesTrimmedThenBlockStripped ==
    Returned =>
        /\ \A k \in 1..Cardinality(TitleIdx(lines_read)) :
              SingleRun(lines_read, k) =>
                  DescriptionOf(result[k]) =
                      Strip(JoinNL(StripEach(RunLines(lines_read, k))))
        /\ lines_read = IndentedDoc =>
              DescriptionOf(result[1]) = IndentedDescription

\* A description with an indented line, an interior blank line and a trailing
\* blank line.
C7_Witness ==
    /\ Returned
    /\ lines_read = <<RawTitleFix, RawIndented, RawBlank, RawLine1>>
    /\ SingleRun(lines_read, 1)
    /\ DescriptionOf(result[1]) = IndentedDescription

-----------------------------------------------------------------------------
(* C8 *)

RECURSIVE Concat(_)
Concat(xs) == IF xs = <<>> THEN <<>> ELSE Head(xs) \o Concat(Tail(xs))

IsComma(c) == c = ","
Visible(c) == ~IsSpace(c) /\ ~IsComma(c)

\* The comma-separated pieces of s that hold a visible character, counted from
\* the positions of the commas.
Cuts(s) == {0, Len(s) + 1} \cup {i \in 1..Len(s) : IsComma(s[i])}
VisiblePieces(s) ==
    {c \in Cuts(s) :
        \E d \in Cuts(s) :
            /\ c < d
            /\ \A e \in Cuts(s) : ~(c < e /\ e < d)
            /\ \E i \in (c + 1)..(d - 1) : ~IsSpace(s[i])}

Occurs(x, s) == \E a \in 1..Len(s) : a + Len(x) - 1 <= Len(s) /\ SubSeq(s, a, a + Len(x) - 1) = x

TrimmedPiecesOf(labs, s) ==
    /\ Len(labs) = Cardinality(VisiblePieces(s))
    /\ \A i \in 1..Len(labs) :
          /\ labs[i] # <<>>
          /\ ~IsSpace(labs[i][1]) /\ ~IsSpace(labs[i][Len(labs[i])])
          /\ \A j \in 1..Len(labs[i]) : ~IsComma(labs[i][j])
          /\ Occurs(labs[i], s)
    /\ SelectSeq(Concat(labs), Visible) = SelectSeq(s, Visible)

\* C8: right after a LabelsMarker with text s received while a task is in progress,
\* the task's labels are the comma-separated pieces of s, trimmed, without the
\* pieces that are empty after trimming, in order and with repeats kept;
\* "a, b ,, c" gives [a, b, c]; no record ever holds an empty label.
C8_LabelsAreTrimmedPieces ==
    /\ (pc = "loop" /\ lines_read # <<>> /\ KindOf(LastRead) = "labels"
            /\ HasTitle(current_task)) =>
          /\ current_task.labels # <<>>
          /\ TrimmedPiecesOf(current_task.labels[1], LabelsText(LastRead))
    /\ (pc = "loop" /\ lines_read = LabelExampleDoc) =>
          current_task.labels = << << <<"a">>, <<"b">>, <<"c">> >> >>
    /\ \A k \in 1..Len(tasks) :
          \A i \in 1..Len(tasks[k].labels[1]) : tasks[k].labels[1][i] # <<>>

\* A LabelsMarker with empty pieces and a repeated label, inside a task.
C8_Witness ==
    /\ pc = "loop"
    /\ lines_read # <<>>
    /\ LastRead = RawLabelsDup
    /\ HasTitle(current_task)
    /\ current_task.labels = << << <<"u","i">>, <<"u","i">> >> >>

-----------------------------------------------------------------------------
(* C9 *)

LabelsIdx(doc, k) ==
    {i \in (KthTitle(doc, k) + 1)..TaskEnd(doc, k) : KindOf(doc[i]) = "labels"}

\* C9: a record's labels are those of the last LabelsMarker of its block, and []
\* when the block has none.
C9_LastLabelsMarkerWins ==
    Returned =>
        \A k \in 1..Cardinality(TitleIdx(lines_read)) :
            result[k].labels =
                <<IF LabelsIdx(lines_read, k) = {} THEN <<>>
                  ELSE SplitLabels(LabelsText(lines_read[Max(LabelsIdx(lines_read, k))]))>>

\* A block with two different LabelsMarkers, then a block with none.
C9_Witness ==
    /\ Returned
    /\ Len(result) = 2
    /\ Cardinality(LabelsIdx(lines_read, 1)) = 2
    /\ result[1].labels = << << <<"u","i">>, <<"u","i">> >> >>
    /\ LabelsIdx(lines_read, 2) = {}
    /\ result[2].labels = << <<>> >>

-----------------------------------------------------------------------------
(* C10 *)

\* What the step from the current state to the next one is: the branch taken by
\* the line just read, or the end of input.
StepKind ==
    IF pc' = "returned"
    THEN IF error' = "none" THEN "eof" ELSE "raise"
    ELSE IF lines_read' # lines_read
    THEN Branch(Locals, ScanOf(lines_read'[Len(lines_read')]).m)
    ELSE "other"

\* A step that resets or discards the buffer while a task is in progress.
ResetStep ==
    /\ pc = "loop"
    /\ HasTitle(current_task)
    /\ StepKind \in {"title", "description", "labels", "separator", "eof"}

\* The description, after the step, of the task that was in progress before it:
\* a TitleMarker, a Separator and the end of input append that task to the output.
DescriptionAfterStep ==
    IF StepKind \in {"title", "separator", "eof"}
    THEN DescriptionOf(tasks'[Len(tasks')])
    ELSE DescriptionOf(current_task')

\* C10 as claimed: at every reset of the buffer while a task is in progress the
\* task's description has been assigned the flush of the buffered lines, also
\* when the buffer is empty.
C10_FlushedAlsoWhenEmpty ==
    [][ResetStep => DescriptionAfterStep = Flush(description_lines)]_vars

\* C10 as amended: at every such reset a non-empty buffer has first been flushed
\* into the task's description (joined by newline and trimmed); with an empty
\* buffer no assignment is made and the description keeps its earlier value.
\* After a marker or a Separator the buffer is empty.
C10_FlushedWhenNonEmpty ==
    [][ResetStep =>
          /\ DescriptionAfterStep =
                IF description_lines # <<>> THEN Flush(description_lines)
                ELSE DescriptionOf(current_task)
          /\ StepKind # "eof" => description_lines' = <<>>]_vars

\* A Separator arrived with an empty buffer (a DescriptionMarker had flushed
\* it), and the record keeps the description flushed earlier.
C10_Witness ==
    /\ pc = "loop"
    /\ lines_read # <<>>
    /\ KindOf(LastRead) = "separator"
    /\ HasTitle(BeforeLast.current_task)
    /\ BeforeLast.description_lines = <<>>
    /\ DescriptionOf(BeforeLast.current_task) # <<>>
    /\ DescriptionOf(tasks[Len(tasks)]) = DescriptionOf(BeforeLast.current_task)

-----------------------------------------------------------------------------
(* create_github_issue and main *)

\* d.get(k, default)
GetOr(d, k, default) == IF d[k] = <<>> THEN default ELSE d[k][1]

\* issue_params: body and labels are passed on only when truthy (non-empty).
IssueParams(title, body, labels) ==
    [title |-> <<title>>,
     body |-> IF body # <<>> THEN <<body>> ELSE <<>>,
     labels |-> IF labels # <<>> THEN <<labels>> ELSE <<>>]

\* What repo.create_issue may do.
ApiOutcomes == {"ok", "GithubException", "Exception"}

\* create_github_issue returns True when repo.create_issue returns, and False
\* from both except clauses.
ReturnsTrue(api) == api = "ok"

\* The call main makes for one task, with what repo.create_issue did.
IssueCall(task, api) ==
    LET title == GetOr(task, "title", <<>>)
        description == GetOr(task, "description", <<>>)
        labels == GetOr(task, "labels", <<>>)
    IN  [title |-> title, description |-> description, labels |-> labels,
         params |-> IssueParams(title, description, labels),
         api |-> api, returned |-> ReturnsTrue(api)]

\* if create_github_issue(...): created_count += 1 else: failed_count += 1
CountOnlyGithubErrors(counts, call) ==
    IF call.returned THEN [counts EXCEPT !.created = @ + 1]
    ELSE IF call.api = "GithubException" THEN [counts EXCEPT !.failed = @ + 1]
    ELSE counts
Count(counts, call) ==
    IF call.returned THEN [counts EXCEPT !.created = @ + 1]
    ELSE [counts EXCEPT !.failed = @ + 1]

\* `for task in tasks_to_create`: the index after the call for task i of n.
StopAtFailure(i, n, call) == IF call.returned THEN i + 1 ELSE n + 1
Advance(i, n, call) == i + 1

\* `if not tasks_to_create: return`
AlwaysGoOn(found) == TRUE
GoOn(found) == found # <<>>

\* The documents main is run on.
RECURSIVE DocsUpTo(_)
DocsUpTo(n) ==
    IF n = 0 THEN {<<>>}
    ELSE LET shorter == DocsUpTo(n - 1)
         IN  shorter \cup {Append(d, raw) : d \in {x \in shorter : Len(x) = n - 1},
                                            raw \in RawLines}
MainDocs == DocsUpTo(MaxMainLines) \cup {ExampleDoc}

InitMain ==
    /\ ParserInit
    /\ MainIdle
    /\ github_token \in BOOLEAN

\* if not github_token: print(...); return
NoToken ==
    /\ mpc = "start"
    /\ ~github_token
    /\ mpc' = "done"
    /\ exit' = "no_token"
    /\ UNCHANGED parservars
    /\ UNCHANGED <<github_token, tasks_to_create, ops, calls, next_task,
                   created_count, failed_count>>

\* tasks_to_create = parse_markdown_tasks(args.markdown_file), the file read to its end.
ParseFile ==
    /\ mpc = "start"
    /\ github_token
    /\ \E doc \in MainDocs :
          LET s == EndOfInput(AfterLines(doc))
          IN  /\ SetLocals(s)
              /\ lines_read' = doc
              /\ result' = s.tasks
              /\ tasks_to_create' = s.tasks
    /\ pc' = "returned"
    /\ error' = "none"
    /\ ops' = Append(ops, "parse")
    /\ mpc' = "parsed"
    /\ UNCHANGED <<github_token, calls, next_task, created_count, failed_count, exit>>

\* tasks_to_create = parse_markdown_tasks(...), which returns [] from an except clause:
\* the file cannot be opened, or reading fails after the lines of doc.
ParseFileFails ==
    /\ mpc = "start"
    /\ github_token
    /\ \/ /\ error' \in {"FileNotFoundError", "Exception"}
          /\ lines_read' = <<>>
          /\ SetLocals(InitLocals)
       \/ \E doc \in MainDocs :
             /\ error' = "Exception"
             /\ lines_read' = doc
             /\ SetLocals(AfterLines(doc))
    /\ pc' = "returned"
    /\ result' = <<>>
    /\ tasks_to_create' = <<>>
    /\ ops' = Append(ops, "parse")
    /\ mpc' = "parsed"
    /\ UNCHANGED <<github_token, calls, next_task, created_count, failed_count, exit>>

\* if not tasks_to_create: print(...); return
NoTasks ==
    /\ mpc = "parsed"
    /\ ~GoOn(tasks_to_create)
    /\ mpc' = "done"
    /\ exit' = "no_tasks"
    /\ UNCHANGED parservars
    /\ UNCHANGED <<github_token, tasks_to_create, ops, calls, next_task,
                   created_count, failed_count>>

\* g = Github(github_token); user = g.get_user()
Authenticate ==
    /\ mpc = "parsed"
    /\ GoOn(tasks_to_create)
    /\ ops' = Append(ops, "get_user")
    /\ mpc' = "authenticated"
    /\ UNCHANGED parservars
    /\ UNCHANGED <<github_token, tasks_to_create, calls, next_task,
                   created_count, failed_count, exit>>

\* ... except Exception: print(...); return
AuthenticateFails ==
    /\ mpc = "parsed"
    /\ GoOn(tasks_to_create)
    /\ ops' = Append(ops, "get_user")
    /\ mpc' = "done"
    /\ exit' = "auth_failed"
    /\ UNCHANGED parservars
    /\ UNCHANGED <<github_token, tasks_to_create, calls, next_task,
                   created_count, failed_count>>

\* repo = g.get_repo(args.repo_name); created_count = 0; failed_count = 0
GetRepo ==
    /\ mpc = "authenticated"
    /\ ops' = Append(ops, "get_repo")
    /\ mpc' = "connected"
    /\ next_task' = 1
    /\ created_count' = 0
    /\ failed_count' = 0
    /\ UNCHANGED parservars
    /\ UNCHANGED <<github_token, tasks_to_create, calls, exit>>

\* ... except GithubException / except Exception: print(...); return
GetRepoFails ==
    /\ mpc = "authenticated"
    /\ ops' = Append(ops, "get_repo")
    /\ mpc' = "done"
    /\ exit' = "repo_failed"
    /\ UNCHANGED parservars
    /\ UNCHANGED <<github_token, tasks_to_create, calls, next_task,
                   created_count, failed_count>>

\* One iteration of `for task in tasks_to_create`.
CreateIssue ==
    /\ mpc = "connected"
    /\ next_task <= Len(tasks_to_create)
    /\ \E api \in ApiOutcomes :
          LET call == IssueCall(tasks_to_create[next_task], api)
              counts == Count([created |-> created_count, failed |-> failed_count], call)
          IN  /\ calls' = Append(calls, call)
              /\ created_count' = counts.created
              /\ failed_count' = counts.failed
              /\ next_task' = Advance(next_task, Len(tasks_to_create), call)
    /\ ops' = Append(ops, "create_issue")
    /\ UNCHANGED parservars
    /\ UNCHANGED <<mpc, github_token, tasks_to_create, exit>>

\* The loop is over: print the summary.
Summary ==
    /\ mpc = "connected"
    /\ next_task > Len(tasks_to_create)
    /\ mpc' = "done"
    /\ exit' = "summary"
    /\ UNCHANGED parservars
    /\ UNCHANGED <<github_token, tasks_to_create, ops, calls, next_task,
                   created_count, failed_count>>

NextMain ==
    \/ NoToken
    \/ ParseFile
    \/ ParseFileFails
    \/ NoTasks
    \/ Authenticate
    \/ AuthenticateFails
    \/ GetRepo
    \/ GetRepoFails
    \/ CreateIssue
    \/ Summary

SpecMain == InitMain /\ [][NextMain]_vars

-----------------------------------------------------------------------------
(* C11 *)

\* main got past authentication and the repository lookup.
Connected == mpc = "connected" \/ (mpc = "done" /\ exit = "summary")

\* The i-th call is the call for the i-th record, with its three fields.
CallMatches(i) ==
    /\ <<calls[i].title>> = tasks_to_create[i].title
    /\ <<calls[i].description>> = tasks_to_create[i].description
    /\ <<calls[i].labels>> = tasks_to_create[i].labels

\* C11: once connected, main calls create_github_issue once per record the parser
\* returned, in document order and with that record's title, description and
\* labels; whatever the outcome of a call (success, GitHub API error, any other
\* exception), the calls for the later records are made, so that main ends with
\* exactly one call per record.
C11_OneCallPerRecord ==
    /\ tasks_to_create = result
    /\ Connected =>
          /\ tasks_to_create = ParseDoc(lines_read)
          /\ Len(calls) = next_task - 1
          /\ Len(calls) <= Len(tasks_to_create)
          /\ \A i \in 1..Len(calls) : CallMatches(i)
    /\ ~Connected => calls = <<>>
    /\ (mpc = "done" /\ exit = "summary") => Len(calls) = Len(tasks_to_create)

\* Both calls of the specification's example were made although the first one
\* failed with an API error.
C11_Witness ==
    /\ mpc = "done"
    /\ exit = "summary"
    /\ lines_read = ExampleDoc
    /\ Len(calls) = 2
    /\ calls[1].api = "GithubException"
    /\ calls[2].api = "ok"
    /\ calls[1].title = FixBug
    /\ calls[2].title = AddFeature

-----------------------------------------------------------------------------
(* C12 *)

\* C12: when the source does not exist the parser returns the empty sequence together
\* with a condition its caller can tell from a successful parse that found no
\* task: what the caller receives differs from what it receives for a readable
\* document without tasks.
C12_MissingSourceIsDistinguishable ==
    (pc = "returned" /\ error = "FileNotFoundError") =>
        /\ result = <<>>
        /\ \A doc \in DocsUpTo(1) : result # ParseDoc(doc)

-----------------------------------------------------------------------------
(* C13 *)

BranchNames == {"title", "description", "labels", "separator", "plain", "none"}

\* A dict as the parser builds them: {}, {labels}, or all three keys.
DictShapeOK(d) ==
    /\ DOMAIN d = {"title", "description", "labels"}
    /\ \A k \in DOMAIN d : Len(d[k]) <= 1
    /\ d.title = <<>> => d.description = <<>>
    /\ d.title # <<>> => d.description # <<>> /\ d.labels # <<>>

RecordOK(r) == DictShapeOK(r) /\ HasTitle(r)

LocalsOK(s) ==
    /\ \A i \in 1..Len(s.tasks) : RecordOK(s.tasks[i])
    /\ DictShapeOK(s.current_task)
    /\ s.description_lines # <<>> => HasTitle(s.current_task)

\* C13: the assembler is total.  In every state of the loop every line of any kind
\* takes exactly one of the branches (or none, and is dropped) and leaves locals
\* of the expected shape, the locals are those of one left-to-right pass over the
\* lines read, the end of input leaves locals of the expected shape, and a normal
\* return gives a sequence of records; the only returns with an error are those
\* of a failed open or read, and they give the empty sequence.
C13_AssemblerIsTotal ==
    /\ pc = "loop" =>
          /\ LocalsOK(Locals)
          /\ Locals = AfterLines(lines_read)
          /\ \A raw \in NextLines :
                /\ Branch(Locals, ScanOf(raw).m) \in BranchNames
                /\ CanRead(raw) =>
                      Cardinality({b \in BranchNames : Takes(raw, b)}) = 1
                /\ LocalsOK(ProcessLine(Locals, raw))
          /\ LocalsOK(EndOfInput(Locals))
    /\ Returned =>
          /\ \A i \in 1..Len(result) : RecordOK(result[i])
          /\ result = EndOfInput(AfterLines(lines_read)).tasks
    /\ (pc = "returned" /\ error # "none") => result = <<>>

\* A document of markers in no sensible order has been read to its end.
C13_Witness ==
    /\ Returned
    /\ Len(lines_read) = 4
    /\ KindOf(lines_read[1]) = "separator"
    /\ KindOf(lines_read[2]) = "labels"
    /\ KindOf(lines_read[3]) = "description"
    /\ KindOf(lines_read[4]) = "title"
    /\ Len(result) = 1

-----------------------------------------------------------------------------
(* C14 *)

\* C14: the output is append-only.  Every step leaves the earlier output as a
\* prefix of the new one and adds at most one record; an added record is the task
\* that was in progress before the step (its title and labels, its description
\* flushed), not the task a TitleMarker starts; what is returned is the output.
C14_OutputAppendOnly ==
    [][/\ IsPrefix(tasks, tasks')
       /\ Len(tasks') <= Len(tasks) + 1
       /\ Len(tasks') = Len(tasks) + 1 =>
             /\ HasTitle(current_task)
             /\ tasks'[Len(tasks')].title = current_task.title
             /\ tasks'[Len(tasks')].labels = current_task.labels
             /\ DescriptionOf(tasks'[Len(tasks')]) =
                   IF description_lines # <<>> THEN Flush(description_lines)
                   ELSE DescriptionOf(current_task)
       /\ (pc' = "returned" /\ error' = "none") => result' = tasks']_vars

\* A finished record is still in place, unchanged, after a later TitleMarker, plain
\* line and LabelsMarker.
C14_Witness ==
    /\ pc = "loop"
    /\ Len(lines_read) = 4
    /\ KindOf(lines_read[1]) = "title"
    /\ KindOf(lines_read[2]) = "title"
    /\ KindOf(lines_read[3]) = "plain"
    /\ KindOf(lines_read[4]) = "labels"
    /\ tasks = <<Record(TitleText(lines_read[1]), <<>>, <<>>)>>
    /\ current_task.title # tasks[1].title
    /\ current_task.labels # tasks[1].labels

-----------------------------------------------------------------------------
(* C15 *)

\* A LabelsMarker is read while no task is in progress.
IdleLabelsStep == pc = "loop" /\ ~HasTitle(current_task) /\ StepKind = "labels"

\* C15 as claimed: a LabelsMarker received while no task is in progress changes
\* neither the output, nor the buffer, nor the task in progress, which keeps
\* having no field set.
C15_IdleLabelsChangeNothing ==
    [][IdleLabelsStep => UNCHANGED <<tasks, current_task, description_lines>>]_vars

\* C15 as amended: a LabelsMarker received while no task is in progress leaves
\* the output and the buffer unchanged and the parser idle (no title, no
\* description); it does store its labels under the key labels of current_task,
\* but every TitleMarker sets the labels of the task it starts to [] and a dict
\* without a title is never appended, so these labels reach no record.
C15_IdleLabelsReachNoRecord ==
    [][/\ IdleLabelsStep =>
             /\ tasks' = tasks
             /\ description_lines' = description_lines
             /\ ~HasTitle(current_task')
             /\ current_task'.title = current_task.title
             /\ current_task'.description = current_task.description
             /\ current_task'.labels =
                   <<SplitLabels(LabelsText(lines_read'[Len(lines_read')]))>>
       /\ (pc = "loop" /\ StepKind = "title") => current_task'.labels = << <<>> >>
       /\ Len(tasks') > Len(tasks) => HasTitle(current_task)]_vars

\* A LabelsMarker came first; the TitleMarker after it started a task without
\* labels.
C15_Witness ==
    /\ pc = "loop"
    /\ Len(lines_read) = 2
    /\ KindOf(lines_read[1]) = "labels"
    /\ KindOf(lines_read[2]) = "title"
    /\ BeforeLast.current_task.labels # <<>>
    /\ ~HasTitle(BeforeLast.current_task)
    /\ current_task = Record(TitleText(lines_read[2]), <<>>, <<>>)

-----------------------------------------------------------------------------
(* C16 *)

\* The number of calls made so far for which create_github_issue returned b.
Returning(b) == Cardinality({i \in 1..Len(calls) : calls[i].returned = b})

\* C16: when main ends with its summary after N parsed records,
\* created_count + failed_count = N; each record was counted once, as created
\* when its create_github_issue call returned True and as failed otherwise
\* (and while the loop runs the two counters add up to the calls made so far).
C16_CountersAddUp ==
    Connected =>
        /\ created_count = Returning(TRUE)
        /\ failed_count = Returning(FALSE)
        /\ created_count + failed_count = Len(calls)
        /\ (mpc = "done") => created_count + failed_count = Len(tasks_to_create)

\* The run over the specification's example ended with one issue created and
\* one failed with an exception other than a GitHub API error.
C16_Witness ==
    /\ mpc = "done"
    /\ exit = "summary"
    /\ lines_read = ExampleDoc
    /\ Len(tasks_to_create) = 2
    /\ calls[1].api = "Exception"
    /\ calls[2].api = "ok"
    /\ created_count = 1
    /\ failed_count = 1

-----------------------------------------------------------------------------
(* C17 *)

\* The last run of consecutive plain lines among the task lines of the k-th
\* block (the runs are cut by DescriptionMarker and LabelsMarker lines).
LastSegment(doc, k) ==
    LET b == TaskLines(doc, k)
        plain == {i \in 1..Len(b) : KindOf(b[i]) = "plain"}
    IN  IF plain = {} THEN <<>>
        ELSE LET last == Max(plain)
                 first == Min({j \in 1..last :
                                  \A i \in j..last : KindOf(b[i]) = "plain"})
             IN  SubSeq(b, first, last)

PlainLines(doc, k) ==
    SelectSeq(TaskLines(doc, k), LAMBDA raw : KindOf(raw) = "plain")

\* C17: a record's description is the join-and-trim of the last segment of plain
\* lines of its block that holds at least one line (the segments are cut by
\* DescriptionMarker and LabelsMarker lines); earlier segments are overwritten,
\* an empty segment leaves the earlier description, and a block without plain
\* lines has the description "".
C17_LastSegmentWins ==
    Returned =>
        \A k \in 1..Cardinality(TitleIdx(lines_read)) :
            DescriptionOf(result[k]) =
                Strip(JoinNL(StripEach(LastSegment(lines_read, k))))

\* A block with a plain line before a marker and a plain line after it: the
\* description is the second line alone.
C17_Witness ==
    /\ Returned
    /\ Len(lines_read) = 4
    /\ KindOf(lines_read[1]) = "title"
    /\ KindOf(lines_read[2]) = "plain"
    /\ KindOf(lines_read[3]) \in {"description", "labels"}
    /\ KindOf(lines_read[4]) = "plain"
    /\ Strip(lines_read[4]) # <<>>
    /\ Strip(lines_read[2]) # <<>>
    /\ DescriptionOf(result[1]) = Strip(lines_read[4])
    /\ DescriptionOf(result[1]) # Strip(JoinNL(StripEach(PlainLines(lines_read, 1))))

-----------------------------------------------------------------------------
(* C18 *)

\* C18: when opening or reading the source fails, also after records were
\* finished, the parser returns the empty sequence, never some of the records.
C18_AllOrNothing ==
    (pc = "returned" /\ error # "none") => result = <<>>

\* Reading failed after a record had been finished.
C18_Witness ==
    /\ pc = "returned"
    /\ error = "Exception"
    /\ tasks # <<>>
    /\ lines_read # <<>>
    /\ result = <<>>

-----------------------------------------------------------------------------
(* C19 *)

\* The stripped line is a title or labels keyword with nothing after it.
BareMarker(raw) ==
    LET line == Strip(raw)
    IN  \/ StartsWith(TitleKeyword, line) /\ Len(line) = Len(TitleKeyword)
        \/ StartsWith(LabelsKeyword, line) /\ Len(line) = Len(LabelsKeyword)

\* C19: a title or labels keyword with no text after it is a plain line: reading
\* it closes nothing, starts nothing and changes no labels; with a task in
\* progress the stripped line is appended to the buffer, otherwise it is dropped.
C19_BareMarkerIsPlain ==
    [][(pc = "loop" /\ lines_read' # lines_read
            /\ BareMarker(lines_read'[Len(lines_read')])) =>
          /\ StepKind = (IF HasTitle(current_task) THEN "plain" ELSE "none")
          /\ tasks' = tasks
          /\ current_task' = current_task
          /\ description_lines' =
                IF HasTitle(current_task)
                THEN Append(description_lines, Strip(lines_read'[Len(lines_read')]))
                ELSE description_lines]_vars

\* A bare labels keyword inside a task is in the buffer as text, and the bare
\* title keyword before it ended up in no record.
C19_Witness ==
    /\ pc = "loop"
    /\ lines_read = <<RawTitleBare, RawTitleFix, RawLabelsBare>>
    /\ tasks = <<>>
    /\ current_task = Record(FixBug, <<>>, <<>>)
    /\ description_lines = <<LabelsKeyword>>

-----------------------------------------------------------------------------
(* C20 *)

\* The operations of main in their fixed order.
OpsInOrder ==
    \A i \in 1..Len(ops) :
        ops[i] = (CASE i = 1 -> "parse"
                    [] i = 2 -> "get_user"
                    [] i = 3 -> "get_repo"
                    [] OTHER -> "create_issue")

\* C20: main works in a fixed order (parse, authenticate, look up the
\* repository, create the issues) and leaves early: without a token it never
\* parses; when the parser returned no record (no task, or a read error) it
\* never authenticates, never looks up the repository and creates no issue; when
\* authentication or the repository lookup fails it creates no issue.
C20_FixedOrderEarlyExit ==
    /\ OpsInOrder
    /\ ~github_token => ops = <<>> /\ ParserInit /\ exit \in {"", "no_token"}
    /\ (mpc # "start" /\ github_token /\ tasks_to_create = <<>>) =>
          /\ ops = <<"parse">>
          /\ calls = <<>>
          /\ exit \in {"", "no_tasks"}
    /\ exit = "no_tasks" => tasks_to_create = <<>>
    /\ exit = "auth_failed" => ops = <<"parse", "get_user">> /\ calls = <<>>
    /\ exit = "repo_failed" => ops = <<"parse", "get_user", "get_repo">> /\ calls = <<>>
    /\ calls # <<>> => Len(ops) = 3 + Len(calls)

\* Reading failed after a record had been finished: main stopped after the
\* parse, without any other operation.
C20_Witness ==
    /\ mpc = "done"
    /\ exit = "no_tasks"
    /\ error = "Exception"
    /\ tasks # <<>>
    /\ ops = <<"parse">>
    /\ calls = <<>>

====
